---- MODULE Spec2Model ----
(***************************************************************************)
(* Model of app::AppInitializer (cpp/src/app_initializer.{hpp,cpp}): a     *)
(* transcoder of tagged, length-prefixed command records.  The object      *)
(* holds the raw byte buffer binary_sequence_ and the catalog vrd_map_.    *)
(*                                                                         *)
(* Positions are 0-based as in the C++ code; TLA+ sequences are 1-based,   *)
(* so the byte at position p of a buffer b is b[p + 1].                    *)
(*                                                                         *)
(* The code indexes binary_sequence_ without any bounds check.  A read at  *)
(* an index >= size() is undefined behaviour; it is modelled by a memory   *)
(* image mem = buffer \o tail, where tail is an arbitrary run of bytes     *)
(* that happens to follow the vector's storage: a read inside the tail     *)
(* yields those bytes, a read beyond it faults (status "crash").  The      *)
(* empty tail models a build or run in which the first such read faults.   *)
(* size_t is taken to be 64 bits wide, so cursor arithmetic never wraps.   *)
(***************************************************************************)
EXTENDS Integers, Sequences, FiniteSets, TLC

\* latest is a history variable, not a field of the object: for every name, the
\* payload of the most recent load_vrd_data call that returned normally
VARIABLES binary_sequence_, vrd_map_, phase, last, latest

\* wide holds one entry and the record emitted for it with their byte counts
\* as 64-bit size_t values, for the sizes near 2^32 that no payload sequence
\* of the other variables can have
VARIABLES wide

vars == <<binary_sequence_, vrd_map_, phase, last, latest, wide>>

(***************************************************************************)
(* CommandType (app_initializer.hpp)                                       *)
(***************************************************************************)
APB_WRITE == 1
VRD_INFO == 2
PM_BINARY == 3
DMA_WRITE == 4

\* A byte is modulo 2^8.  TLC's integers are 32-bit signed, so 2^32 itself is
\* never written: a uint32_t is narrowed by taking its four bytes modulo 2^8,
\* and the one subtraction that can borrow (length - 8) is split into the
\* borrow and the rest (see name_length below).
U8 == 16 * 16

(***************************************************************************)
(* Bounds of the checked input space                                       *)
(***************************************************************************)
MaxRecords == 3
MaxCut == 1
MaxPayloadLen == 2

(***************************************************************************)
(* Little-endian helpers                                                   *)
(***************************************************************************)
\* read_uint32(pos): four bytes at pos..pos+3, least significant first
read_uint32(mem, pos) ==
    mem[pos + 1]
    + mem[pos + 2] * U8
    + mem[pos + 3] * U8 * U8
    + mem[pos + 4] * U8 * U8 * U8

\* append_uint32(vec, value): value narrowed to uint32_t by the call,
\* then each shifted value narrowed to uint8_t
append_uint32(vec, value) ==
    vec \o << value % U8,
              (value \div U8) % U8,
              (value \div (U8 * U8)) % U8,
              (value \div (U8 * U8 * U8)) % U8 >>

\* a copy that stops one byte early
copy_bytes_short(dest, mem, src_pos, length) ==
    dest \o SubSeq(mem, src_pos + 1, src_pos + length - 1)

\* copy_bytes(dest, src_pos, length): appends bytes src_pos .. src_pos+length-1
copy_bytes(dest, mem, src_pos, length) ==
    dest \o SubSeq(mem, src_pos + 1, src_pos + length)

(***************************************************************************)
(* VrdInfo (the name is the key of vrd_map_)                               *)
(***************************************************************************)
\* an entry whose size and address changed places
VrdInfo_swapped(size, dst_addr, data, is_loaded) ==
    [size |-> dst_addr, dst_addr |-> size, data |-> data, is_loaded |-> is_loaded]

VrdInfo(size, dst_addr, data, is_loaded) ==
    [size |-> size, dst_addr |-> dst_addr, data |-> data, is_loaded |-> is_loaded]

EmptyMap == [n \in {} |-> VrdInfo(0, 0, <<>>, FALSE)]

\* an insert that keeps the entry already there (unordered_map::insert)
MapPut_keep_first(map, name, info) ==
    IF name \in DOMAIN map THEN map
    ELSE [n \in (DOMAIN map) \cup {name} |-> IF n = name THEN info ELSE map[n]]

\* vrd_map_[name] = vrd_info : insert or overwrite
MapPut(map, name, info) ==
    [n \in (DOMAIN map) \cup {name} |-> IF n = name THEN info ELSE map[n]]

(***************************************************************************)
(* parse_binary_sequence                                                   *)
(*   buf       binary_sequence_                                            *)
(*   mem       buf followed by the bytes an out-of-range read would see    *)
(* A scan ends with status "ok", "crash" (a read of unmapped memory),      *)
(* "huge" (a copy of about 4 GiB or more out of the buffer was asked for:  *)
(* the allocation throws std::bad_alloc, or the copy faults; see Outcomes) *)
(* or, in generate_init_sequence, with one of its exceptions.              *)
(* The scan state st carries the cursor pos, the catalog built so far,     *)
(* oob (some byte at an index >= buf.size() was read), wrapped (a name     *)
(* length was computed from a length field below 8) and starts (the        *)
(* cursor value at the head of each loop iteration).                       *)
(***************************************************************************)
ParseStart ==
    [pos |-> 0, map |-> EmptyMap, oob |-> FALSE, wrapped |-> FALSE,
     starts |-> <<>>, status |-> "running"]

RECURSIVE parse_loop(_, _, _)
parse_loop(buf, mem, st) ==
    IF ~(st.pos < Len(buf)) THEN [st EXCEPT !.status = "ok"]
    ELSE
    LET p0 == st.pos
        s1 == [st EXCEPT !.starts = Append(st.starts, p0)]
    IN
    IF p0 + 5 > Len(mem) THEN [s1 EXCEPT !.status = "crash", !.oob = TRUE]
    ELSE
    LET cmd_type == mem[p0 + 1]
        length   == read_uint32(mem, p0 + 1)
        pos      == p0 + 5
        hdr_oob  == pos > Len(buf)
    IN
    IF cmd_type = VRD_INFO THEN
        \* size_t name_length = length - 8 in uint32_t arithmetic: below 8 the
        \* subtraction borrows and the value is 2^32 + (length - 8), which is
        \* past every address of mem
        LET wraps       == length < 8
            name_length == length - 8
            endp        == pos + name_length + 8
            s2          == [s1 EXCEPT !.wrapped = st.wrapped \/ wraps,
                                      !.oob = st.oob \/ hdr_oob]
        IN
        IF wraps THEN [s2 EXCEPT !.status = "huge"]
        ELSE IF endp > Len(mem) THEN [s2 EXCEPT !.status = "crash", !.oob = TRUE]
        ELSE
        LET name     == SubSeq(mem, pos + 1, pos + name_length)
            size     == read_uint32(mem, pos + name_length)
            dst_addr == read_uint32(mem, pos + name_length + 4)
        IN  parse_loop(buf, mem,
                [s2 EXCEPT !.pos = endp,
                           !.oob = s2.oob \/ endp > Len(buf),
                           !.map = MapPut(st.map, name,
                                          VrdInfo(size, dst_addr, <<>>, FALSE))])
    ELSE
        parse_loop(buf, mem,
            [s1 EXCEPT !.pos = pos + length, !.oob = st.oob \/ hdr_oob])

parse_binary_sequence(buf, tail) ==
    parse_loop(buf, buf \o tail, ParseStart)

\* what the caller can see of a scan that ended with the given status
Outcomes(status) == IF status = "huge" THEN {"bad_alloc", "crash"} ELSE {status}

(***************************************************************************)
(* Pieces of generate_init_sequence's switch                               *)
(***************************************************************************)
\* the deprecated PM_BINARY copied through like the other two
is_copy_command_with_pm(cmd_type) == cmd_type \in {APB_WRITE, PM_BINARY, DMA_WRITE}

\* case labels APB_WRITE and DMA_WRITE: the commands copied as they are
is_copy_command(cmd_type) == cmd_type \in {APB_WRITE, DMA_WRITE}

\* every copied command written with the DMA_WRITE tag
emit_copy_as_dma(out, mem, cmd_type, length, pos) ==
    copy_bytes(append_uint32(Append(out, DMA_WRITE), length), mem, pos, length)

\* "Copy ... command as is": tag, length, then length bytes from pos
emit_copy(out, mem, cmd_type, length, pos) ==
    copy_bytes(append_uint32(Append(out, cmd_type), length), mem, pos, length)

\* the length field without the 8 bytes of address and size
emit_vrd_no_header(out, vrd) ==
    append_uint32(
        append_uint32(
            append_uint32(Append(out, DMA_WRITE), Len(vrd.data)),
            vrd.dst_addr),
        Len(vrd.data)) \o vrd.data

\* "Generate DMA write command for VRD data"
emit_vrd(out, vrd) ==
    append_uint32(
        append_uint32(
            append_uint32(Append(out, DMA_WRITE), Len(vrd.data) + 8),
            vrd.dst_addr),
        Len(vrd.data)) \o vrd.data

(***************************************************************************)
(* generate_init_sequence: the scan after the all-loaded check.            *)
(* status: "ok", "unknown_command" (runtime_error, tag = the byte),        *)
(* "out_of_range" (vrd_map_.at), "bad_alloc", "crash".                     *)
(***************************************************************************)
GenStart ==
    [pos |-> 0, out |-> <<>>, oob |-> FALSE, tag |-> 0,
     starts |-> <<>>, status |-> "running"]

RECURSIVE generate_loop(_, _, _, _)
generate_loop(buf, mem, map, st) ==
    IF ~(st.pos < Len(buf)) THEN [st EXCEPT !.status = "ok"]
    ELSE
    LET p0 == st.pos
        s1 == [st EXCEPT !.starts = Append(st.starts, p0)]
    IN
    IF p0 + 5 > Len(mem) THEN [s1 EXCEPT !.status = "crash", !.oob = TRUE]
    ELSE
    LET cmd_type == mem[p0 + 1]
        length   == read_uint32(mem, p0 + 1)
        pos      == p0 + 5
        s2       == [s1 EXCEPT !.oob = st.oob \/ pos > Len(buf)]
    IN
    IF is_copy_command(cmd_type) THEN
        IF pos + length > Len(mem)
        THEN [s2 EXCEPT !.status = "crash", !.oob = TRUE]
        ELSE generate_loop(buf, mem, map,
                [s2 EXCEPT !.out = emit_copy(st.out, mem, cmd_type, length, pos),
                           !.oob = s2.oob \/ pos + length > Len(buf),
                           !.pos = pos + length])
    ELSE IF cmd_type = VRD_INFO THEN
        \* size_t name_length = length - 8 in uint32_t arithmetic: below 8 the
        \* subtraction borrows and the value is 2^32 + (length - 8), which is
        \* past every address of mem
        LET wraps       == length < 8
            name_length == length - 8
        IN
        IF wraps THEN [s2 EXCEPT !.status = "huge"]
        ELSE IF pos + name_length > Len(mem)
        THEN [s2 EXCEPT !.status = "crash", !.oob = TRUE]
        ELSE
        LET vrd_name == SubSeq(mem, pos + 1, pos + name_length)
            s3       == [s2 EXCEPT !.oob = s2.oob \/ pos + name_length > Len(buf)]
        IN
        IF vrd_name \notin DOMAIN map THEN [s3 EXCEPT !.status = "out_of_range"]
        ELSE
        LET vrd == map[vrd_name]
        IN  generate_loop(buf, mem, map,
                [s3 EXCEPT !.out = emit_vrd(st.out, vrd),
                           !.pos = pos + length])
    ELSE [s2 EXCEPT !.status = "unknown_command", !.tag = cmd_type]

\* a check that stops only when no entry at all is loaded
NotLoaded_all(map) ==
    IF \A n \in DOMAIN map : ~map[n].is_loaded THEN DOMAIN map ELSE {}

\* the names the all-loaded check can stop at
NotLoaded(map) == {n \in DOMAIN map : ~map[n].is_loaded}

(***************************************************************************)
(* Input space: files made of up to MaxRecords records of RecordPool,      *)
(* files whose last record lost up to MaxCut bytes (a truncated file),     *)
(* files holding a placeholder declaration shorter than 8 bytes, and the   *)
(* sample file of test/test_app_initializer.cpp.                           *)
(***************************************************************************)
\* the file's encoding of a 32-bit field (independent of append_uint32)
LE4(v) == << v % 256, (v \div 256) % 256, (v \div 65536) % 256, (v \div 16777216) % 256 >>

Rec(tag, body) == <<tag>> \o LE4(Len(body)) \o body

VrdBody(name, size, dst_addr) == name \o LE4(size) \o LE4(dst_addr)

NameA == <<97>>
NameB == <<98>>

ApbRec == Rec(APB_WRITE, <<>>)
DmaRec == Rec(DMA_WRITE, <<0, 48, 170>>)
PmRec == Rec(PM_BINARY, <<2>>)
\* a tag outside CommandType; the body holds the bytes of a declaration of "b"
OtherRec == Rec(255, Rec(VRD_INFO, VrdBody(NameB, 1, 12288)))
\* declarations: the name "a" twice, with different sizes and addresses
VrdA1Rec == Rec(VRD_INFO, VrdBody(NameA, 1, 8192))
VrdA2Rec == Rec(VRD_INFO, VrdBody(NameA, 2, 50462976))
VrdBRec == Rec(VRD_INFO, VrdBody(NameB, 1, 12288))
\* a placeholder declaration whose length field (4) is below 8
ShortVrdRec == <<VRD_INFO>> \o LE4(4) \o <<97, 1, 0, 0>>

RecordPool == {ApbRec, DmaRec, PmRec, VrdA1Rec, VrdA2Rec, VrdBRec}

RECURSIVE Streams(_)
Streams(k) == IF k = 0 THEN { <<>> }
              ELSE { s \o r : s \in Streams(k - 1), r \in RecordPool }

\* create_sample_binary_sequence (test_app_initializer.cpp)
SampleName == <<116, 101, 115, 116, 95, 118, 114, 100>>
SampleSequence ==
    Rec(APB_WRITE, <<0, 16, 0, 0, 120, 86, 52, 18>>)
    \o Rec(VRD_INFO, VrdBody(SampleName, 16, 8192))
    \o Rec(DMA_WRITE, <<0, 48, 0, 0, 4, 0, 0, 0, 170, 187, 204, 221>>)
SamplePayload == [i \in 1..16 |-> i - 1]

\* files with a short placeholder declaration, at most one record around it
ShortBuffers == { s \o ShortVrdRec \o t : s, t \in Streams(0) \cup Streams(1) }

\* files with a record whose tag is no CommandType, at most one record around it
OtherBuffers == { s \o OtherRec \o t : s, t \in Streams(0) \cup Streams(1) }

\* whole records followed by one record that lost its last bytes
TruncatedBuffers ==
    { s \o SubSeq(r, 1, Len(r) - c) :
        s \in UNION { Streams(k) : k \in 0..(MaxRecords - 2) },
        r \in RecordPool,
        c \in 1..MaxCut }

\* files that end right behind the header of a placeholder declaration: the
\* name, the size and the address of the declaration lie behind the buffer
HeaderOnlyBuffers ==
    { s \o SubSeq(VrdA1Rec, 1, 5) : s \in Streams(0) \cup Streams(1) }

Buffers ==
    UNION { Streams(k) : k \in 0..MaxRecords }
    \cup TruncatedBuffers
    \cup HeaderOnlyBuffers
    \cup ShortBuffers
    \cup OtherBuffers
    \cup {SampleSequence}

\* payloads offered to load_vrd_data
PayloadBytes == {16, 17}
Payloads == { [i \in 1..len |-> b] : len \in 0..MaxPayloadLen, b \in PayloadBytes }

\* the calls offered on a buffer: the sample's name and payload on the sample
\* file, the pool's names and the small payloads on the others
CallNames(buf) == IF buf = SampleSequence THEN {SampleName, NameB} ELSE {NameA, NameB}
CallPayloads(buf) == IF buf = SampleSequence THEN {SamplePayload, <<16>>} ELSE Payloads

\* bytes found behind the buffer by an out-of-range read
\* nothing mapped, one byte value repeated, or a letter followed by zeroes
MaxTail == 9
GarbageBytes == {0, 2}
Tails ==
    { <<>> }
    \cup { [i \in 1..MaxTail |-> g] : g \in GarbageBytes }
    \cup { [i \in 1..MaxTail |-> IF i = 1 THEN NameA[1] ELSE 0] }

(***************************************************************************)
(* Byte counts up to 2^32 + 7.  A size_t value v is the pair hi, lo with   *)
(* v = hi * 2^16 + lo and lo < 2^16; a uint32_t value has hi < 2^16.       *)
(***************************************************************************)
U16 == U8 * U8

SizeT(hi, lo) == [hi |-> hi, lo |-> lo]

\* size_t + small constant, as in vrd.data.size() + 8 (no 64-bit overflow here)
size_t_plus(v, k) == SizeT(v.hi + (v.lo + k) \div U16, (v.lo + k) % U16)

\* append_uint32(vec, static_cast<uint32_t>(v)): the conversion at the call
\* keeps the low 32 bits, the function writes them least significant byte first
append_uint32_wide(vec, v) ==
    vec \o << v.lo % U8, (v.lo \div U8) % U8, v.hi % U8, (v.hi \div U8) % U8 >>

\* declared sizes: near 0, near 2^32, and around some multiples of 2^16
MaxNear == 24
WideSizes ==
    { SizeT(0, lo) : lo \in 0..MaxNear }
    \cup { SizeT(U16 - 1, U16 - 1 - d) : d \in 0..MaxNear }
    \cup { SizeT(hi, lo) : hi \in {1, U8 - 1, U8, U16 \div 2},
                           lo \in {0, 16} \cup ((U16 - 9)..(U16 - 1)) }

NoWide ==
    [stage |-> "none", size |-> SizeT(0, 0), length_field |-> <<>>,
     size_field |-> <<>>, following |-> SizeT(0, 0)]

\* an entry of declared size S (parse) that load_vrd_data filled: the payload
\* passed the test data.size() == size, so it has S bytes
load_wide(S) ==
    /\ wide.stage = "none"
    /\ wide' = [wide EXCEPT !.stage = "loaded", !.size = S]
    /\ UNCHANGED <<binary_sequence_, vrd_map_, phase, last, latest>>

\* the VRD_INFO case of generate_init_sequence for this entry: the length
\* field, the size field, and the count of the bytes pushed behind the length
\* field (4 of the address, 4 of the size, the payload)
emit_wide ==
    /\ wide.stage = "loaded"
    /\ wide' = [wide EXCEPT
                   !.stage = "emitted",
                   !.length_field = append_uint32_wide(<<>>, size_t_plus(wide.size, 8)),
                   !.size_field = append_uint32_wide(<<>>, wide.size),
                   !.following = size_t_plus(size_t_plus(wide.size, 4), 4)]
    /\ UNCHANGED <<binary_sequence_, vrd_map_, phase, last, latest>>

(***************************************************************************)
(* State.  phase: "new" (file read, parse not yet run), "ready" (object    *)
(* constructed), "failed" (constructor left by an exception), "crashed"    *)
(* (the process faulted).  last: the outcome of the last call.             *)
(***************************************************************************)
NoInfo == VrdInfo(0, 0, <<>>, FALSE)

EmptyPayloads == [n \in {} |-> <<>>]

NoResult ==
    [op |-> "none", status |-> "none", returned |-> FALSE, out |-> <<>>,
     tag |-> 0, name |-> <<>>, data |-> <<>>, pos |-> 0, oob |-> FALSE,
     wrapped |-> FALSE, starts |-> <<>>, count |-> 0, found |-> FALSE,
     info |-> NoInfo]

Init ==
    /\ binary_sequence_ \in Buffers
    /\ vrd_map_ = EmptyMap
    /\ phase = "new"
    /\ last = NoResult
    /\ latest = EmptyPayloads
    /\ wide = NoWide

\* AppInitializer::AppInitializer, after the file was read
Construct ==
    /\ phase = "new"
    /\ \E tail \in Tails :
         \E r \in { parse_binary_sequence(binary_sequence_, tail) } :
           \E status \in Outcomes(r.status) :
             /\ phase' = IF status = "ok" THEN "ready"
                         ELSE IF status = "crash" THEN "crashed" ELSE "failed"
             /\ vrd_map_' = IF status = "ok" THEN r.map ELSE EmptyMap
             /\ last' = [NoResult EXCEPT !.op = "construct", !.status = status,
                                         !.pos = r.pos,
                                         !.oob = r.oob \/ status = "crash",
                                         !.wrapped = r.wrapped,
                                         !.starts = r.starts]
    /\ UNCHANGED binary_sequence_

\* a load that stores the payload before it compares the sizes
load_vrd_data_store_first(vrd_name, data) ==
    /\ phase = "ready"
    /\ LET res == [NoResult EXCEPT !.op = "load", !.name = vrd_name, !.data = data]
       IN  IF vrd_name \notin DOMAIN vrd_map_
           THEN /\ last' = [res EXCEPT !.status = "not_found"]
                /\ UNCHANGED vrd_map_
           ELSE /\ vrd_map_' = [vrd_map_ EXCEPT ![vrd_name].data = data,
                                                ![vrd_name].is_loaded = TRUE]
                /\ last' = IF Len(data) # vrd_map_[vrd_name].size
                           THEN [res EXCEPT !.status = "size_mismatch"]
                           ELSE [res EXCEPT !.status = "ok", !.returned = TRUE]
    /\ UNCHANGED <<binary_sequence_, phase>>

\* a load that looks the name up with operator[], which inserts a missing key
load_vrd_data_inserting(vrd_name, data) ==
    /\ phase = "ready"
    /\ LET res == [NoResult EXCEPT !.op = "load", !.name = vrd_name, !.data = data]
           map == IF vrd_name \in DOMAIN vrd_map_ THEN vrd_map_
                  ELSE MapPut(vrd_map_, vrd_name, NoInfo)
       IN  IF Len(data) # map[vrd_name].size
           THEN /\ last' = [res EXCEPT !.status = "size_mismatch"]
                /\ vrd_map_' = map
           ELSE /\ vrd_map_' = [map EXCEPT ![vrd_name].data = data,
                                           ![vrd_name].is_loaded = TRUE]
                /\ last' = [res EXCEPT !.status = "ok", !.returned = TRUE]
    /\ UNCHANGED <<binary_sequence_, phase>>

\* a load that sets the flag of the entry and forgets to store the payload
load_vrd_data_flag_only(vrd_name, data) ==
    /\ phase = "ready"
    /\ LET res == [NoResult EXCEPT !.op = "load", !.name = vrd_name, !.data = data]
       IN  IF vrd_name \notin DOMAIN vrd_map_
           THEN /\ last' = [res EXCEPT !.status = "not_found"]
                /\ UNCHANGED vrd_map_
           ELSE IF Len(data) # vrd_map_[vrd_name].size
           THEN /\ last' = [res EXCEPT !.status = "size_mismatch"]
                /\ UNCHANGED vrd_map_
           ELSE /\ vrd_map_' = [vrd_map_ EXCEPT ![vrd_name].is_loaded = TRUE]
                /\ last' = [res EXCEPT !.status = "ok", !.returned = TRUE]
    /\ UNCHANGED <<binary_sequence_, phase>>

\* a load that marks the entry unloaded when it refuses the payload
load_vrd_data_resetting(vrd_name, data) ==
    /\ phase = "ready"
    /\ LET res == [NoResult EXCEPT !.op = "load", !.name = vrd_name, !.data = data]
       IN  IF vrd_name \notin DOMAIN vrd_map_
           THEN /\ last' = [res EXCEPT !.status = "not_found"]
                /\ UNCHANGED vrd_map_
           ELSE IF Len(data) # vrd_map_[vrd_name].size
           THEN /\ last' = [res EXCEPT !.status = "size_mismatch"]
                /\ vrd_map_' = [vrd_map_ EXCEPT ![vrd_name].data = <<>>,
                                                ![vrd_name].is_loaded = FALSE]
           ELSE /\ vrd_map_' = [vrd_map_ EXCEPT ![vrd_name].data = data,
                                                ![vrd_name].is_loaded = TRUE]
                /\ last' = [res EXCEPT !.status = "ok", !.returned = TRUE]
    /\ UNCHANGED <<binary_sequence_, phase>>

\* a load that stores the payload only into an entry that is not loaded yet
load_vrd_data_keep_first(vrd_name, data) ==
    /\ phase = "ready"
    /\ LET res == [NoResult EXCEPT !.op = "load", !.name = vrd_name, !.data = data]
       IN  IF vrd_name \notin DOMAIN vrd_map_
           THEN /\ last' = [res EXCEPT !.status = "not_found"]
                /\ UNCHANGED vrd_map_
           ELSE IF Len(data) # vrd_map_[vrd_name].size
           THEN /\ last' = [res EXCEPT !.status = "size_mismatch"]
                /\ UNCHANGED vrd_map_
           ELSE /\ vrd_map_' = IF vrd_map_[vrd_name].is_loaded THEN vrd_map_
                               ELSE [vrd_map_ EXCEPT ![vrd_name].data = data,
                                                     ![vrd_name].is_loaded = TRUE]
                /\ last' = [res EXCEPT !.status = "ok", !.returned = TRUE]
    /\ UNCHANGED <<binary_sequence_, phase>>

\* AppInitializer::load_vrd_data
load_vrd_data(vrd_name, data) ==
    /\ phase = "ready"
    /\ LET res == [NoResult EXCEPT !.op = "load", !.name = vrd_name, !.data = data]
       IN  IF vrd_name \notin DOMAIN vrd_map_
           THEN /\ last' = [res EXCEPT !.status = "not_found"]
                /\ UNCHANGED vrd_map_
           ELSE IF Len(data) # vrd_map_[vrd_name].size
           THEN /\ last' = [res EXCEPT !.status = "size_mismatch"]
                /\ UNCHANGED vrd_map_
           ELSE /\ vrd_map_' = [vrd_map_ EXCEPT ![vrd_name].data = data,
                                                ![vrd_name].is_loaded = TRUE]
                /\ last' = [res EXCEPT !.status = "ok", !.returned = TRUE]
    /\ UNCHANGED <<binary_sequence_, phase>>

\* a generate_init_sequence that moves every payload out of its entry
generate_init_sequence_moving ==
    /\ phase = "ready"
    /\ LET res == [NoResult EXCEPT !.op = "generate"]
       IN  IF NotLoaded(vrd_map_) # {}
           THEN /\ \E n \in NotLoaded(vrd_map_) :
                     last' = [res EXCEPT !.status = "not_loaded", !.name = n]
                /\ UNCHANGED phase
           ELSE \E tail \in Tails :
                  \E r \in { generate_loop(binary_sequence_, binary_sequence_ \o tail,
                                           vrd_map_, GenStart) } :
                    \E status \in Outcomes(r.status) :
                      /\ last' = [res EXCEPT !.status = status,
                                             !.returned = (status = "ok"),
                                             !.out = IF status = "ok" THEN r.out ELSE <<>>,
                                             !.tag = r.tag, !.pos = r.pos,
                                             !.oob = r.oob \/ status = "crash",
                                             !.starts = r.starts]
                      /\ phase' = IF status = "crash" THEN "crashed" ELSE phase
    /\ vrd_map_' = [n \in DOMAIN vrd_map_ |-> [vrd_map_[n] EXCEPT !.data = <<>>]]
    /\ UNCHANGED binary_sequence_

\* AppInitializer::generate_init_sequence
generate_init_sequence ==
    /\ phase = "ready"
    /\ LET res == [NoResult EXCEPT !.op = "generate"]
       IN  IF NotLoaded(vrd_map_) # {}
           THEN /\ \E n \in NotLoaded(vrd_map_) :
                     last' = [res EXCEPT !.status = "not_loaded", !.name = n]
                /\ UNCHANGED phase
           ELSE \E tail \in Tails :
                  \E r \in { generate_loop(binary_sequence_, binary_sequence_ \o tail,
                                           vrd_map_, GenStart) } :
                    \E status \in Outcomes(r.status) :
                      /\ last' = [res EXCEPT !.status = status,
                                             !.returned = (status = "ok"),
                                             !.out = IF status = "ok" THEN r.out ELSE <<>>,
                                             !.tag = r.tag, !.pos = r.pos,
                                             !.oob = r.oob \/ status = "crash",
                                             !.starts = r.starts]
                      /\ phase' = IF status = "crash" THEN "crashed" ELSE phase
    /\ UNCHANGED <<binary_sequence_, vrd_map_>>

\* AppInitializer::get_vrd_count
get_vrd_count ==
    /\ phase = "ready"
    /\ last' = [NoResult EXCEPT !.op = "count", !.status = "ok", !.returned = TRUE,
                                !.count = Cardinality(DOMAIN vrd_map_)]
    /\ UNCHANGED <<binary_sequence_, vrd_map_, phase>>

\* AppInitializer::has_vrd
has_vrd(vrd_name) ==
    /\ phase = "ready"
    /\ last' = [NoResult EXCEPT !.op = "has", !.status = "ok", !.returned = TRUE,
                                !.name = vrd_name,
                                !.found = (vrd_name \in DOMAIN vrd_map_)]
    /\ UNCHANGED <<binary_sequence_, vrd_map_, phase>>

\* AppInitializer::get_vrd_info
get_vrd_info(vrd_name) ==
    /\ phase = "ready"
    /\ LET res == [NoResult EXCEPT !.op = "info", !.name = vrd_name]
       IN  IF vrd_name \notin DOMAIN vrd_map_
           THEN last' = [res EXCEPT !.status = "not_found"]
           ELSE last' = [res EXCEPT !.status = "ok", !.returned = TRUE,
                                    !.info = vrd_map_[vrd_name]]
    /\ UNCHANGED <<binary_sequence_, vrd_map_, phase>>

\* the history variable follows what the caller saw: a load_vrd_data call that
\* returned without an exception makes its payload the latest of its name
Observe ==
    /\ latest' = IF last'.op = "load" /\ last'.returned
                 THEN [n \in (DOMAIN latest) \cup {last'.name} |->
                           IF n = last'.name THEN last'.data ELSE latest[n]]
                 ELSE latest
    /\ UNCHANGED wide

Next ==
    \/ Construct /\ Observe
    \/ \E n \in CallNames(binary_sequence_), d \in CallPayloads(binary_sequence_) :
         load_vrd_data(n, d) /\ Observe
    \/ generate_init_sequence /\ Observe
    \/ get_vrd_count /\ Observe
    \/ \E n \in CallNames(binary_sequence_) : has_vrd(n) /\ Observe
    \/ \E n \in CallNames(binary_sequence_) : get_vrd_info(n) /\ Observe

Spec == Init /\ [][Next]_vars

\* the specification of the wide byte counts: one entry, loaded and emitted
InitLen ==
    /\ binary_sequence_ = <<>>
    /\ vrd_map_ = EmptyMap
    /\ phase = "ready"
    /\ last = NoResult
    /\ latest = EmptyPayloads
    /\ wide = NoWide

NextLen ==
    \/ \E S \in WideSizes : load_wide(S)
    \/ emit_wide

SpecLen == InitLen /\ [][NextLen]_vars

(***************************************************************************)
(* The record format, as the specification states it (section 3 and 6):    *)
(* tag:1 | length:4 little-endian | body:length.  These definitions decode *)
(* a buffer independently of the scans above; the properties below are     *)
(* stated with them.                                                       *)
(***************************************************************************)
Dec4(s, p) == s[p + 1] + 256 * s[p + 2] + 65536 * s[p + 3] + 16777216 * s[p + 4]

RECURSIVE WellFramedFrom(_, _)
WellFramedFrom(buf, p) ==
    \/ p = Len(buf)
    \/ /\ p + 5 <= Len(buf)
       /\ p + 5 + Dec4(buf, p + 1) <= Len(buf)
       /\ buf[p + 1] = 2 => Dec4(buf, p + 1) >= 8
       /\ WellFramedFrom(buf, p + 5 + Dec4(buf, p + 1))

WellFramed(buf) == WellFramedFrom(buf, 0)

\* the records of a well-framed buffer, in stream order
RECURSIVE RecordsFrom(_, _)
RecordsFrom(buf, p) ==
    IF p >= Len(buf) THEN <<>>
    ELSE LET len == Dec4(buf, p + 1)
         IN  << [tag |-> buf[p + 1], len |-> len, start |-> p,
                 body |-> SubSeq(buf, p + 6, p + 5 + len),
                 bytes |-> SubSeq(buf, p + 1, p + 5 + len)] >>
             \o RecordsFrom(buf, p + 5 + len)

Records(buf) == RecordsFrom(buf, 0)

Tags(buf) == { Records(buf)[i].tag : i \in 1..Len(Records(buf)) }

\* fields of a placeholder-declaration record
DeclName(r) == SubSeq(r.body, 1, r.len - 8)
DeclSize(r) == Dec4(r.body, r.len - 8)
DeclAddr(r) == Dec4(r.body, r.len - 4)

IsDecl(r) == r.tag = 2
IsWrite(r) == r.tag \in {1, 4}

\* the declaration record i is the last one of the buffer with its name
LastOfName(recs, i) ==
    \A j \in (i + 1)..Len(recs) : IsDecl(recs[j]) => DeclName(recs[j]) # DeclName(recs[i])

RECURSIVE Flatten(_)
Flatten(ss) == IF ss = <<>> THEN <<>> ELSE Head(ss) \o Flatten(Tail(ss))

Unfilled(map) == \E n \in DOMAIN map : ~map[n].is_loaded

Constructed == phase = "ready"

\* an input of direct-write and transfer-write records only
OnlyWrites(buf) == WellFramed(buf) /\ Tags(buf) \subseteq {1, 4}

\* an input of direct-write, transfer-write and placeholder records only
KnownTags(buf) == WellFramed(buf) /\ Tags(buf) \subseteq {1, 2, 4}

(***************************************************************************)
(* C1  Round-trip passthrough: on a well-framed buffer of direct-write and *)
(* transfer-write records only (the empty buffer included) construction    *)
(* succeeds with an empty catalog, and every generate_init_sequence        *)
(* returns exactly the bytes of the input.                                 *)
(***************************************************************************)
C1_RoundTrip ==
    (OnlyWrites(binary_sequence_) /\ phase # "new") =>
        /\ Constructed
        /\ DOMAIN vrd_map_ = {}
        /\ last.op = "construct" => last.status = "ok"
        /\ last.op = "generate" =>
              /\ last.status = "ok"
              /\ last.returned
              /\ last.out = binary_sequence_

C1_Witness ==
    /\ OnlyWrites(binary_sequence_)
    /\ Tags(binary_sequence_) = {1, 4}
    /\ Len(Records(binary_sequence_)) = 3
    /\ last.op = "generate"
    /\ last.returned
    /\ last.out = binary_sequence_

(***************************************************************************)
(* C2  Placeholder substitution: on a well-framed buffer of direct-write,  *)
(* transfer-write and placeholder records in which no name is declared     *)
(* twice, once every entry holds a payload, generate_init_sequence returns *)
(* the input with each placeholder declaration (size S, address D) replaced*)
(* in place by 0x04 | S+8 | D | S | P, where P is the S-byte payload stored*)
(* for its name, and every other record unchanged; on the sample file with *)
(* the payload 0..15 this is the three records of the test's comment.      *)
(***************************************************************************)
ExpectedRecord(r, map) ==
    IF IsDecl(r)
    THEN <<4>> \o LE4(DeclSize(r) + 8) \o LE4(DeclAddr(r)) \o LE4(DeclSize(r))
         \o map[DeclName(r)].data
    ELSE r.bytes

Expected(buf, map) ==
    Flatten([i \in 1..Len(Records(buf)) |-> ExpectedRecord(Records(buf)[i], map)])

NoNameTwice(buf) ==
    \A i \in 1..Len(Records(buf)) :
        IsDecl(Records(buf)[i]) => LastOfName(Records(buf), i)

SampleExpected ==
    <<1, 8, 0, 0, 0, 0, 16, 0, 0, 120, 86, 52, 18>>
    \o <<4, 24, 0, 0, 0, 0, 32, 0, 0, 16, 0, 0, 0>>
    \o <<0, 1, 2, 3, 4, 5, 6, 7, 8, 9, 10, 11, 12, 13, 14, 15>>
    \o <<4, 12, 0, 0, 0, 0, 48, 0, 0, 4, 0, 0, 0, 170, 187, 204, 221>>

C3_OutputFraming ==
    (/\ KnownTags(binary_sequence_)
     /\ last.op = "generate"
     /\ ~Unfilled(vrd_map_)) =>
        /\ last.returned
        /\ WellFramed(last.out)
        /\ LET ins  == Records(binary_sequence_)
               outs == Records(last.out)
           IN  /\ Len(outs) = Len(ins)
               /\ \A i \in 1..Len(ins) :
                     /\ IsWrite(ins[i]) => outs[i].bytes = ins[i].bytes
                     /\ IsDecl(ins[i]) => outs[i].tag = 4
                     /\ outs[i].tag # 2

\* two declarations of one name around a direct-write: three records out
C3_Witness ==
    /\ KnownTags(binary_sequence_)
    /\ last.op = "generate"
    /\ last.returned
    /\ Len(Records(binary_sequence_)) = 3
    /\ IsDecl(Records(binary_sequence_)[1])
    /\ Records(binary_sequence_)[2].tag = 1
    /\ IsDecl(Records(binary_sequence_)[3])
    /\ Len(Records(last.out)) = 3

(***************************************************************************)
(* C4  Unfilled rejection: whenever some catalog entry is not loaded,      *)
(* generate_init_sequence throws "VRD data not loaded" for one of the      *)
(* unloaded names and returns nothing, whatever the buffer holds.          *)
(***************************************************************************)
C4_UnfilledRejection ==
    (last.op = "generate" /\ Unfilled(vrd_map_)) =>
        /\ last.status = "not_loaded"
        /\ ~last.returned
        /\ last.out = <<>>
        /\ last.name \in DOMAIN vrd_map_
        /\ ~vrd_map_[last.name].is_loaded
        /\ phase = "ready"

\* one entry loaded, the other not, and a legacy-binary record in the buffer
C4_Witness ==
    /\ last.op = "generate"
    /\ last.status = "not_loaded"
    /\ \E n \in DOMAIN vrd_map_ : vrd_map_[n].is_loaded
    /\ \E n \in DOMAIN vrd_map_ : ~vrd_map_[n].is_loaded
    /\ WellFramed(binary_sequence_)
    /\ 3 \in Tags(binary_sequence_)

(***************************************************************************)
(* C5  Size-mismatch rejection: a load_vrd_data for a name of the catalog  *)
(* with a payload whose length is not the entry's declared size throws the *)
(* size-mismatch error and changes no catalog entry; an entry that was     *)
(* not loaded before the call still has no payload and is_loaded = FALSE.  *)
(***************************************************************************)
C5_Step ==
    (/\ last'.op = "load"
     /\ last'.name \in DOMAIN vrd_map_
     /\ Len(last'.data) # vrd_map_[last'.name].size) =>
        /\ last'.status = "size_mismatch"
        /\ ~last'.returned
        /\ vrd_map_' = vrd_map_
        /\ \A n \in DOMAIN vrd_map_ :
              ~vrd_map_[n].is_loaded =>
                  /\ n \in DOMAIN vrd_map_'
                  /\ ~vrd_map_'[n].is_loaded
                  /\ vrd_map_'[n].data = <<>>

C5_SizeMismatch == [][C5_Step]_vars

\* a wrong-sized, non-empty payload was refused for an entry that is still unloaded
C5_Witness ==
    /\ last.op = "load"
    /\ last.status = "size_mismatch"
    /\ last.name \in DOMAIN vrd_map_
    /\ last.data # <<>>
    /\ ~vrd_map_[last.name].is_loaded
    /\ vrd_map_[last.name].data = <<>>

(***************************************************************************)
(* C6  Not-found rejection: load_vrd_data and get_vrd_info with a name     *)
(* that is no key of the catalog throw "VRD not found" and leave the       *)
(* catalog as it was: no entry for the name, the same number of entries.   *)
(***************************************************************************)
C6_Step ==
    (/\ last'.op \in {"load", "info"}
     /\ last'.name \notin DOMAIN vrd_map_) =>
        /\ last'.status = "not_found"
        /\ ~last'.returned
        /\ vrd_map_' = vrd_map_
        /\ last'.name \notin DOMAIN vrd_map_'
        /\ Cardinality(DOMAIN vrd_map_') = Cardinality(DOMAIN vrd_map_)

\* what get_vrd_count and has_vrd answer is the catalog's size and membership
C6_Introspection ==
    /\ last.op = "count" => last.count = Cardinality(DOMAIN vrd_map_)
    /\ last.op = "has" => (last.found <=> last.name \in DOMAIN vrd_map_)
    /\ (last.op \in {"load", "info"} /\ last.status = "not_found") =>
           last.name \notin DOMAIN vrd_map_

C6_NotFound == [][C6_Step]_vars /\ []C6_Introspection

\* a load for an absent name was refused on a catalog that has another entry
C6_Witness ==
    /\ last.op = "load"
    /\ last.status = "not_found"
    /\ last.name \notin DOMAIN vrd_map_
    /\ DOMAIN vrd_map_ # {}

(***************************************************************************)
(* The first framing fault a scan from the start of the buffer meets:      *)
(* "header" (fewer than 5 bytes left for tag and length), "overlong" (the  *)
(* length field reaches past the end of the buffer), "short" (a placeholder*)
(* declaration with a length field below 8), or "none".                    *)
(***************************************************************************)
RECURSIVE FirstFaultFrom(_, _)
FirstFaultFrom(buf, p) ==
    IF p >= Len(buf) THEN "none"
    ELSE IF p + 5 > Len(buf) THEN "header"
    ELSE IF buf[p + 1] = 2 /\ Dec4(buf, p + 1) < 8 THEN "short"
    ELSE IF p + 5 + Dec4(buf, p + 1) > Len(buf) THEN "overlong"
    ELSE FirstFaultFrom(buf, p + 5 + Dec4(buf, p + 1))

FirstFault(buf) == FirstFaultFrom(buf, 0)

(***************************************************************************)
(* C7  Decode-truncation on overlong length: construction fails with a     *)
(* decode error when a record's length field reaches past the end of the   *)
(* buffer; the parse reads no byte at an index >= the buffer size and      *)
(* never ends successfully with the cursor beyond the end of the buffer.   *)
(***************************************************************************)
C7_DecodeTruncation ==
    (last.op = "construct" /\ FirstFault(binary_sequence_) = "overlong") =>
        /\ last.status = "decode_error"
        /\ ~last.oob
        /\ last.pos <= Len(binary_sequence_)

(***************************************************************************)
(* C8  Decode-truncation on short placeholder: construction fails with a   *)
(* decode error on a placeholder declaration whose length field is below   *)
(* 8; no catalog entry comes from such a record and its name length is     *)
(* never computed as a wrapped-around value.                               *)
(***************************************************************************)
C8_ShortPlaceholder ==
    (last.op = "construct" /\ FirstFault(binary_sequence_) = "short") =>
        /\ last.status = "decode_error"
        /\ ~last.wrapped
        /\ DOMAIN vrd_map_ = {}

(***************************************************************************)
(* C9  Unknown record kind is rejected only at emission: on a well-framed  *)
(* buffer holding a record whose tag is not 1, 2 or 4 (3 included)         *)
(* construction succeeds, the cursor ends at the end of the buffer and the *)
(* catalog holds the names of the buffer's own declarations only (nothing  *)
(* from inside the skipped body); with every entry loaded,                 *)
(* generate_init_sequence throws "Unknown command type" with the tag of    *)
(* the first such record and returns nothing.                              *)
(***************************************************************************)
DeclNames(buf) ==
    { DeclName(Records(buf)[i]) : i \in { k \in 1..Len(Records(buf)) : IsDecl(Records(buf)[k]) } }

FirstUnknownTag(buf) ==
    LET recs == Records(buf)
        k == CHOOSE i \in 1..Len(recs) :
                 /\ recs[i].tag \notin {1, 2, 4}
                 /\ \A j \in 1..(i - 1) : recs[j].tag \in {1, 2, 4}
    IN  recs[k].tag

HasUnknown(buf) == WellFramed(buf) /\ ~(Tags(buf) \subseteq {1, 2, 4})

C9_UnknownKind ==
    (HasUnknown(binary_sequence_) /\ phase # "new") =>
        /\ Constructed
        /\ DOMAIN vrd_map_ = DeclNames(binary_sequence_)
        /\ last.op = "construct" =>
              /\ last.status = "ok"
              /\ last.pos = Len(binary_sequence_)
              /\ ~last.oob
        /\ (last.op = "generate" /\ ~Unfilled(vrd_map_)) =>
              /\ last.status = "unknown_command"
              /\ last.tag = FirstUnknownTag(binary_sequence_)
              /\ ~last.returned
              /\ last.out = <<>>

\* a legacy-binary record behind a declaration whose entry is loaded
C9_Witness ==
    /\ WellFramed(binary_sequence_)
    /\ Len(Records(binary_sequence_)) >= 2
    /\ IsDecl(Records(binary_sequence_)[1])
    /\ Records(binary_sequence_)[2].tag = 3
    /\ last.op = "generate"
    /\ last.status = "unknown_command"
    /\ last.tag = 3

(***************************************************************************)
(* C10  Duplicate-name overwrite: when two declarations of a well-framed   *)
(* buffer carry the same name, the catalog's entry for the name has the    *)
(* size and address of the last of them, unloaded after construction;      *)
(* once that entry (and any entry of another name) is loaded with a        *)
(* payload of that size, generate_init_sequence succeeds on a buffer of    *)
(* known tags and the record it emits for every declaration of the name    *)
(* is 0x04 | size+8 | the last declaration's address | size | payload.     *)
(***************************************************************************)
C10_DuplicateOverwrite ==
    (WellFramed(binary_sequence_) /\ Constructed) =>
        LET recs == Records(binary_sequence_)
        IN  \A i, j \in 1..Len(recs) :
              (/\ i < j
               /\ IsDecl(recs[i])
               /\ IsDecl(recs[j])
               /\ DeclName(recs[i]) = DeclName(recs[j])
               /\ LastOfName(recs, j)) =>
                  LET n == DeclName(recs[j])
                  IN  /\ n \in DOMAIN vrd_map_
                      /\ vrd_map_[n].size = DeclSize(recs[j])
                      /\ vrd_map_[n].dst_addr = DeclAddr(recs[j])
                      /\ last.op = "construct" =>
                            /\ ~vrd_map_[n].is_loaded
                            /\ vrd_map_[n].data = <<>>
                      /\ (/\ last.op = "generate"
                          /\ KnownTags(binary_sequence_)
                          /\ ~Unfilled(vrd_map_)) =>
                            /\ last.returned
                            /\ Len(vrd_map_[n].data) = DeclSize(recs[j])
                            /\ Len(Records(last.out)) = Len(recs)
                            /\ \A k \in 1..Len(recs) :
                                  (IsDecl(recs[k]) /\ DeclName(recs[k]) = n) =>
                                      /\ Records(last.out)[k].tag = 4
                                      /\ Records(last.out)[k].len = DeclSize(recs[j]) + 8
                                      /\ Records(last.out)[k].body =
                                             LE4(DeclAddr(recs[j])) \o LE4(DeclSize(recs[j]))
                                             \o vrd_map_[n].data

\* "a" declared with size 1 and then with size 2: one entry, both records emitted
C10_Witness ==
    /\ KnownTags(binary_sequence_)
    /\ Len(Records(binary_sequence_)) >= 2
    /\ \E i, j \in 1..Len(Records(binary_sequence_)) :
          /\ i < j
          /\ IsDecl(Records(binary_sequence_)[i])
          /\ IsDecl(Records(binary_sequence_)[j])
          /\ DeclName(Records(binary_sequence_)[i]) = DeclName(Records(binary_sequence_)[j])
          /\ DeclSize(Records(binary_sequence_)[i]) # DeclSize(Records(binary_sequence_)[j])
          /\ DeclAddr(Records(binary_sequence_)[i]) # DeclAddr(Records(binary_sequence_)[j])
    /\ Cardinality(DOMAIN vrd_map_) = 1
    /\ last.op = "generate"
    /\ last.returned

(***************************************************************************)
(* C11  Idempotent emission: when every entry of the catalog is loaded,    *)
(* two calls of generate_init_sequence with no load_vrd_data call between  *)
(* them have the same outcome: both return the same bytes, or both leave   *)
(* with the same exception.                                                *)
(***************************************************************************)
SameOutcome(a, b) ==
    /\ a.returned = b.returned
    /\ a.status = b.status
    /\ a.out = b.out
    /\ a.tag = b.tag
    /\ a.name = b.name

C11_Step ==
    (/\ last.op = "generate"
     /\ last'.op = "generate"
     /\ ~Unfilled(vrd_map_)) => SameOutcome(last, last')

C11_StepFramed ==
    (/\ WellFramed(binary_sequence_)
     /\ last.op = "generate"
     /\ last'.op = "generate"
     /\ ~Unfilled(vrd_map_)) => SameOutcome(last, last')

C11_IdempotentOnFramed == [][C11_StepFramed]_vars

(***************************************************************************)
(* C12  Emission is read-only: a generate_init_sequence call that returns, *)
(* or that leaves with the exception for an unloaded entry or for an       *)
(* unknown command type, leaves binary_sequence_ and every entry of        *)
(* vrd_map_ (name set, size, address, payload, loaded flag) as they were.  *)
(***************************************************************************)
C12_Step ==
    (/\ last'.op = "generate"
     /\ last'.status \in {"ok", "not_loaded", "unknown_command"}) =>
        /\ binary_sequence_' = binary_sequence_
        /\ DOMAIN vrd_map_' = DOMAIN vrd_map_
        /\ \A n \in DOMAIN vrd_map_ : vrd_map_'[n] = vrd_map_[n]

C12_EmissionReadOnly == [][C12_Step]_vars

\* an emission that returned on a catalog that holds a non-empty payload
C12_Witness ==
    /\ last.op = "generate"
    /\ last.returned
    /\ \E n \in DOMAIN vrd_map_ : vrd_map_[n].is_loaded /\ vrd_map_[n].data # <<>>

(***************************************************************************)
(* C13  Catalog entry invariant: in every state after construction an      *)
(* unloaded entry has an empty payload and a loaded entry has a payload    *)
(* whose length is the entry's size; no call after construction changes    *)
(* the set of names, the size of an entry or the address of an entry.      *)
(***************************************************************************)
C13_Entries ==
    Constructed =>
        \A n \in DOMAIN vrd_map_ :
            /\ ~vrd_map_[n].is_loaded => vrd_map_[n].data = <<>>
            /\ vrd_map_[n].is_loaded => Len(vrd_map_[n].data) = vrd_map_[n].size

C13_Step ==
    Constructed =>
        /\ DOMAIN vrd_map_' = DOMAIN vrd_map_
        /\ \A n \in DOMAIN vrd_map_ :
              /\ vrd_map_'[n].size = vrd_map_[n].size
              /\ vrd_map_'[n].dst_addr = vrd_map_[n].dst_addr

C13_CatalogInvariant == []C13_Entries /\ [][C13_Step]_vars

\* two entries, one loaded with a payload of its size and one not, after a
\* load that was refused
C13_Witness ==
    /\ Constructed
    /\ last.op = "load"
    /\ ~last.returned
    /\ \E n, m \in DOMAIN vrd_map_ :
          /\ vrd_map_[n].is_loaded
          /\ vrd_map_[n].size > 0
          /\ ~vrd_map_[m].is_loaded

(***************************************************************************)
(* C14  One-way fill: an entry that is loaded stays in the catalog and     *)
(* stays loaded over every step: a further load of its name (accepted or   *)
(* refused), a load of another name, an emission, a query.                 *)
(***************************************************************************)
C14_Step ==
    \A n \in DOMAIN vrd_map_ :
        vrd_map_[n].is_loaded =>
            /\ n \in DOMAIN vrd_map_'
            /\ vrd_map_'[n].is_loaded

C14_OneWayFill == [][C14_Step]_vars

\* a payload of the wrong size was refused for an entry that is loaded
C14_Witness ==
    /\ last.op = "load"
    /\ last.status = "size_mismatch"
    /\ last.name \in DOMAIN vrd_map_
    /\ vrd_map_[last.name].is_loaded

(***************************************************************************)
(* C15  Latest payload wins: after any sequence of loads and emissions the *)
(* loaded entries are the names with an accepted load and each holds the   *)
(* payload of the latest accepted load of its name; an emission that       *)
(* returns on a buffer whose records all end inside it carries, in the     *)
(* record of every placeholder declaration, that latest payload behind the *)
(* address and the size.  Refused loads and earlier emissions change       *)
(* nothing of this.                                                        *)
(***************************************************************************)
C15_LatestPayloadWins ==
    Constructed =>
        /\ \A n \in DOMAIN vrd_map_ : vrd_map_[n].is_loaded <=> n \in DOMAIN latest
        /\ \A n \in DOMAIN latest :
              n \in DOMAIN vrd_map_ /\ vrd_map_[n].data = latest[n]
        /\ (/\ last.op = "generate"
            /\ last.returned
            /\ WellFramed(binary_sequence_)) =>
                LET recs == Records(binary_sequence_)
                    outs == Records(last.out)
                IN  /\ Len(outs) = Len(recs)
                    /\ \A i \in 1..Len(recs) :
                          IsDecl(recs[i]) =>
                              /\ DeclName(recs[i]) \in DOMAIN latest
                              /\ SubSeq(outs[i].body, 9, outs[i].len) =
                                     latest[DeclName(recs[i])]

\* an emission that returned a record carrying a non-empty latest payload
C15_Witness ==
    /\ WellFramed(binary_sequence_)
    /\ last.op = "generate"
    /\ last.returned
    /\ \E i \in 1..Len(Records(binary_sequence_)) :
          /\ IsDecl(Records(binary_sequence_)[i])
          /\ latest[DeclName(Records(binary_sequence_)[i])] # <<>>
          /\ SubSeq(Records(last.out)[i].body, 9, Records(last.out)[i].len) =
                 latest[DeclName(Records(binary_sequence_)[i])]

(***************************************************************************)
(* C16  Parse builds the catalog: after construction on a well-framed      *)
(* buffer the names of vrd_map_ are the names of the tag-0x02 records,     *)
(* get_vrd_count returns the number of distinct names, has_vrd(n) is true  *)
(* exactly for these names, each entry has the size and the address        *)
(* decoded little-endian from the last record of its name, and right       *)
(* after construction every entry is unloaded with an empty payload;       *)
(* records of other tags add no entry.                                     *)
(***************************************************************************)
C16_ParseBuildsCatalog ==
    (WellFramed(binary_sequence_) /\ Constructed) =>
        LET recs == Records(binary_sequence_)
            names == { DeclName(recs[i]) : i \in { k \in 1..Len(recs) : recs[k].tag = 2 } }
        IN  /\ DOMAIN vrd_map_ = names
            /\ \A i \in 1..Len(recs) :
                  (recs[i].tag = 2 /\ LastOfName(recs, i)) =>
                      /\ vrd_map_[DeclName(recs[i])].size = DeclSize(recs[i])
                      /\ vrd_map_[DeclName(recs[i])].dst_addr = DeclAddr(recs[i])
            /\ last.op = "construct" =>
                  \A n \in DOMAIN vrd_map_ :
                      ~vrd_map_[n].is_loaded /\ vrd_map_[n].data = <<>>
            /\ last.op = "count" => last.count = Cardinality(names)
            /\ last.op = "has" => (last.found <=> last.name \in names)
            /\ last.op = "info" => (last.returned <=> last.name \in names)

\* a file with a declaration of "a" and a record of tag 255 whose body holds
\* the bytes of a declaration of "b": has_vrd("b") answered false
C16_Witness ==
    /\ WellFramed(binary_sequence_)
    /\ 255 \in Tags(binary_sequence_)
    /\ DOMAIN vrd_map_ = {NameA}
    /\ vrd_map_[NameA].size = 2
    /\ vrd_map_[NameA].dst_addr = 50462976
    /\ last.op = "has"
    /\ last.name = NameB
    /\ ~last.found

(***************************************************************************)
(* C17  Stream position invariant: in the scan of parse_binary_sequence    *)
(* and in the scan of generate_init_sequence, handling the record whose    *)
(* header starts at p and whose length field is L moves the cursor to      *)
(* p + 1 + 4 + L, for every command type (VRD_INFO included) and every     *)
(* value of L; so both scans visit the record starts that this rule gives  *)
(* from position 0.  Stated for the buffers on which every byte the scans  *)
(* read lies inside the buffer up to a short placeholder declaration.      *)
(***************************************************************************)
RECURSIVE StartsFrom(_, _)
StartsFrom(buf, p) ==
    IF p + 5 > Len(buf) THEN <<>>
    ELSE <<p>> \o StartsFrom(buf, p + 5 + Dec4(buf, p + 1))

CursorRule(buf, starts, end) ==
    \A i \in 1..Len(starts) :
        (IF i < Len(starts) THEN starts[i + 1] ELSE end) =
            starts[i] + 5 + Dec4(buf, starts[i] + 1)

ScanDone ==
    \/ last.op = "construct"
    \/ last.op = "generate" /\ last.returned

C17_StreamPosition ==
    (ScanDone /\ FirstFault(binary_sequence_) \in {"none", "short"}) =>
        /\ last.starts = StartsFrom(binary_sequence_, 0)
        /\ CursorRule(binary_sequence_, last.starts, last.pos)

\* the same without the short placeholder declarations
C17_PositionsOnFramed ==
    (ScanDone /\ FirstFault(binary_sequence_) = "none") =>
        /\ last.starts = StartsFrom(binary_sequence_, 0)
        /\ CursorRule(binary_sequence_, last.starts, last.pos)

C18_LookupOnFramed ==
    (/\ Constructed
     /\ WellFramed(binary_sequence_)
     /\ last.op = "generate"
     /\ ~Unfilled(vrd_map_)
     /\ Tags(binary_sequence_) \subseteq {1, 2, 4}) => last.returned

(***************************************************************************)
(* C19  Emitted output is a fixed point: every buffer that                 *)
(* generate_init_sequence returns is a well-framed stream of records of    *)
(* tag 0x01 and 0x04 only; an object constructed on it has an empty        *)
(* catalog and its generate_init_sequence returns the same bytes.          *)
(* C19_OutputFramed states the framing for the record emitted for one      *)
(* entry of any 32-bit size: a scan of the output that starts at this      *)
(* record finds the next record start, 5 + length field, at the end of     *)
(* the bytes emitted for it.  C19_FixedPointSmall states all of the claim  *)
(* for the outputs of the files and payloads of Spec.                      *)
(***************************************************************************)
PlusK(v, k) ==
    IF v.lo + k < 65536 THEN [hi |-> v.hi, lo |-> v.lo + k]
    ELSE [hi |-> v.hi + 1, lo |-> v.lo + k - 65536]

WideDec(bytes) ==
    [hi |-> bytes[3] + 256 * bytes[4], lo |-> bytes[1] + 256 * bytes[2]]

C19_OutputFramed ==
    wide.stage = "emitted" =>
        PlusK(WideDec(wide.length_field), 5) = PlusK(wide.following, 5)

C19_FixedPointSmall ==
    (last.op = "generate" /\ last.returned) =>
        /\ WellFramed(last.out)
        /\ Tags(last.out) \subseteq {1, 4}
        /\ \A tail \in Tails :
              \E p \in { parse_binary_sequence(last.out, tail) } :
                  /\ p.status = "ok"
                  /\ ~p.oob
                  /\ p.pos = Len(last.out)
                  /\ DOMAIN p.map = {}
                  /\ NotLoaded(p.map) = {}
                  /\ \E g \in { generate_loop(last.out, last.out \o tail, p.map, GenStart) } :
                        /\ g.status = "ok"
                        /\ ~g.oob
                        /\ g.out = last.out

(***************************************************************************)
(* C20  No wraparound in the synthesized length field: for every declared  *)
(* size S that fits 32 bits (S >= 2^32 - 8 included) and a payload of S    *)
(* bytes, the length field of the emitted DMA_WRITE record decodes to      *)
(* S + 8 and to the number of bytes that follow it.                        *)
(***************************************************************************)
C20_NoWraparound ==
    wide.stage = "emitted" =>
        /\ WideDec(wide.length_field) = PlusK(wide.size, 8)
        /\ WideDec(wide.length_field) = wide.following

\* what the length field holds: S + 8 below 2^32, S + 8 - 2^32 from there on;
\* the size field holds S for every S
C20_LengthModulo ==
    wide.stage = "emitted" =>
        /\ WideDec(wide.size_field) = wide.size
        /\ wide.following = PlusK(wide.size, 8)
        /\ PlusK(wide.size, 8).hi < 65536 =>
              WideDec(wide.length_field) = PlusK(wide.size, 8)
        /\ PlusK(wide.size, 8).hi >= 65536 =>
              /\ WideDec(wide.length_field).hi = 0
              /\ WideDec(wide.length_field).lo = wide.size.lo + 8 - 65536
              /\ WideDec(wide.length_field).lo < 8

====
